---- MODULE Spec2Model ----
(***************************************************************************)
(* kintai: the session builder of src/main.rs (build_sessions) as a state  *)
(* machine.                                                                *)
(*                                                                         *)
(* A timestamp string "YYYY-MM-DDTHH:MM:SS+HH:MM" is the record            *)
(* [date, clock, off]: the calendar date and the wall clock it shows, and  *)
(* the UTC offset it carries.  The instant it denotes is                   *)
(* date * DayLen + clock - off.  Strings compare field by field, left to   *)
(* right, so the order of the strings is the order of <<date, clock, off>>.*)
(*                                                                         *)
(* Option<T> is a sequence: <<>> is None and <<x>> is Some(x).             *)
(*                                                                         *)
(* Spec      the loop of build_sessions over the sorted list, one          *)
(*           iteration per step; the sorted list is drawn element by       *)
(*           element, each no smaller in key than the one before.  All     *)
(*           timestamps are of one date and one offset; the list is long   *)
(*           enough for a session of two breaks.                           *)
(* SpecZones the same loop over a shorter list of punches whose timestamps *)
(*           range over several dates and UTC offsets.                     *)
(* SpecBatch build_sessions as a whole on a short input list in any order, *)
(*           as read_events collects it: the sort, then the same loop.     *)
(* SpecReport the loop of SpecZones, and then one of the reports made of   *)
(*           the sessions: the monthly summary or the single-month detail. *)
(* SpecRun   one run of `summary` or `excel` on a short log, which is a    *)
(*           file or the standard input: each function called is a step.   *)
(* SpecEscape a `finish` line written by record_event and read back by     *)
(*           read_events, character by character.                          *)
(* SpecLabel the row of the monthly summary for a month of a few sessions, *)
(*           computed in f64 as the code computes it.                      *)
(***************************************************************************)
EXTENDS Integers, Sequences, FiniteSets, TLC

\* ---------------------------------------------------------------- bounds
MaxDate == 2        \* calendar dates 1..MaxDate
MaxClock == 1       \* wall clocks 0..MaxClock within a date
MaxOffset == 1      \* UTC offsets 0 and MaxOffset, in clock units
MaxEvents == 6      \* Spec: events the loop consumes
MaxZoneEvents == 4  \* SpecZones: events the loop consumes
MaxLen == 3         \* SpecBatch: length of the input list; SpecRun: lines of the log
MinutesPerClock == 75  \* minutes between two wall clocks that follow each other
MaxText == 3        \* SpecEscape: characters of the content
MaxSessions == 3    \* SpecLabel: sessions of the month

VARIABLES
    input,      \* build_sessions' argument `events` as given       (SpecBatch)
    events,     \* the sorted list, the part not yet iterated over  (SpecBatch)
    pc,         \* "read", "loop", "done" (returned), "panicked" (unwrap failed)
    active,     \* Option<ActiveSession>
    sessions,   \* Vec<Session>
    last,       \* history: Option of the event consumed by the last iteration
    before,     \* history: `active` as it was before the last iteration
    lastStart,  \* history: Option of the time of the latest `start` consumed
                \* since the latest `finish`
    spans,      \* history: per `finish` that followed a `start`, the times
                \* of the two
    endsSince,  \* history: number of `break_end` events consumed since the
                \* latest `start`
    nStart,     \* history: number of `start` events consumed
    nMatched,   \* history: number of `finish` events consumed while active
    n,          \* history: number of events consumed
    marks,      \* history: the break_start and break_end events consumed
                \* between the latest `start` and the `finish` after it
    cmd,        \* the subcommand of the run: "summary" or "excel"
    source,     \* the run's input: "file" (--input) or "stdin"
    log,        \* the lines of the input                            (SpecRun)
    consumed,   \* the standard input has been read to its end       (SpecRun)
    opens,      \* history: how often the input was opened and read  (SpecRun)
    built,      \* history: what each build_sessions call returned   (SpecRun)
    rate,       \* --rate, an Option
    out,        \* what the run has printed, block by block
    xlsx,       \* Option of the spreadsheet written
    text,       \* the content given to `finish`                  (SpecEscape)
    line,       \* Option of the line record_event printed        (SpecEscape)
    parsed,     \* Option of the event read_events made of it     (SpecEscape)
    terms,      \* minutes of the sessions of one month            (SpecLabel)
    total,      \* the month's running total, an f64               (SpecLabel)
    row         \* Option of the row printed for the month         (SpecLabel)

buildVars == <<input, events, active, sessions, last, before, lastStart,
               spans, endsSince, nStart, nMatched, n, marks>>

runVars == <<cmd, source, log, consumed, opens, built>>

reportVars == <<rate, out, xlsx>>

escapeVars == <<text, line, parsed>>

labelVars == <<terms, total, row>>

vars == <<pc, buildVars, runVars, reportVars, escapeVars, labelVars>>

\* ------------------------------------------------------------ timestamps
DayLen == MaxClock + 2

Timestamp == [date : 1..MaxDate, clock : 0..MaxClock, off : {0, MaxOffset}]

\* a string of the event shape that is no RFC 3339 time: its clock is out of range
BadTs == [date |-> 1, clock |-> MaxClock + 1, off |-> 0]

\* mutant: every string of the event shape is taken for a time
MutParseRfc3339Lenient(ts) == <<ts>>

\* DateTime::parse_from_rfc3339(&e.ts): Some(dt) or, for a bad string, None
ParseRfc3339(ts) == IF ts.clock <= MaxClock THEN <<ts>> ELSE <<>>

Instant(dt) == dt.date * DayLen + dt.clock - dt.off

\* dt.format("%H:%M") and dt.format("%Y/%m/%d"): the clock and the date the
\* timestamp shows in its own offset
FormatHM(dt) == dt.clock
FormatDate(dt) == dt.date

\* the sort key e.ts.clone(), a String, and String's Ord
TsKey(ts) == <<ts.date, ts.clock, ts.off>>

KeyLess(k1, k2) ==
    \/ k1[1] < k2[1]
    \/ k1[1] = k2[1] /\ k1[2] < k2[2]
    \/ k1[1] = k2[1] /\ k1[2] = k2[2] /\ k1[3] < k2[3]

KeyLeq(k1, k2) == ~KeyLess(k2, k1)

\* ---------------------------------------------------------------- events
Types == {"start", "break_start", "break_end", "finish", "note"}
Contents == {<<>>, <<"c">>}

\* LogEvent { ts, ty, content }; content is read on `finish` alone
LogEvent(stamps, types) ==
    [ts : stamps, ty : types \ {"finish"}, content : {<<>>}]
    \cup [ts : stamps, ty : types \cap {"finish"}, content : Contents]

\* the timestamps of one date and one offset, and the unparseable one
LocalTimestamp ==
    [date : {1}, clock : 0..MaxClock, off : {0}] \cup {BadTs}

LocalEvent == LogEvent(LocalTimestamp, Types)

\* the four punches, without content, at any date and offset
ZonePunch == [ts : Timestamp, ty : Types \ {"note"}, content : {<<>>}]

\* ------------------------------------------------------- the loop's body
\* mutant: a restart keeps the breaks of the session it replaces
MutOnStartKeepBreaks(a, dt) ==
    IF a = <<>>
    THEN <<[start |-> dt, breaks |-> <<>>, last_break_start |-> <<>>]>>
    ELSE <<[a[1] EXCEPT !.start = dt]>>

\* mutant: a restart keeps the pending break start of the session it replaces
MutOnStartKeepPending(a, dt) ==
    IF a = <<>>
    THEN <<[start |-> dt, breaks |-> <<>>, last_break_start |-> <<>>]>>
    ELSE <<[start |-> dt, breaks |-> <<>>,
            last_break_start |-> a[1].last_break_start]>>

\* "start" => active = Some(ActiveSession { start: dt, breaks: [], last_break_start: None })
OnStart(a, dt) == <<[start |-> dt, breaks |-> <<>>, last_break_start |-> <<>>]>>

\* mutant: a break_start is ignored while a break is pending
MutOnBreakStartKeepFirst(a, dt) ==
    IF a = <<>> THEN a
    ELSE IF a[1].last_break_start # <<>> THEN a
    ELSE <<[a[1] EXCEPT !.last_break_start = <<dt>>]>>

\* "break_start" => if let Some(a) = active.as_mut() { a.last_break_start = Some(dt) }
OnBreakStart(a, dt) ==
    IF a = <<>> THEN a
    ELSE <<[a[1] EXCEPT !.last_break_start = <<dt>>]>>

\* mutant: the pending break start is read, not taken
MutOnBreakEndKeepPending(a, dt) ==
    IF a = <<>> THEN a
    ELSE IF a[1].last_break_start = <<>> THEN a
    ELSE <<[a[1] EXCEPT !.breaks = Append(@, <<a[1].last_break_start[1], dt>>)]>>

\* "break_end" => if active, if let Some(bs) = a.last_break_start.take() { a.breaks.push((bs, dt)) }
OnBreakEnd(a, dt) ==
    IF a = <<>> THEN a
    ELSE IF a[1].last_break_start = <<>> THEN a
    ELSE <<[a[1] EXCEPT !.breaks = Append(@, <<a[1].last_break_start[1], dt>>),
                        !.last_break_start = <<>>]>>

\* mutant: the cursor advances to the break's start, not its end
RECURSIVE MutWalkBreaksCursorAtStart(_, _, _)
MutWalkBreaksCursorAtStart(cursor, breaks, finish) ==
    IF breaks = <<>> THEN << <<cursor, finish>> >>
    ELSE << <<cursor, Head(breaks)[1]>> >>
         \o MutWalkBreaksCursorAtStart(Head(breaks)[1], Tail(breaks), finish)

\* mutant: an interval of no length is not pushed
RECURSIVE MutWalkBreaksSkipEmpty(_, _, _)
MutWalkBreaksSkipEmpty(cursor, breaks, finish) ==
    IF breaks = <<>> THEN << <<cursor, finish>> >>
    ELSE (IF cursor = Head(breaks)[1] THEN <<>>
          ELSE << <<cursor, Head(breaks)[1]>> >>)
         \o MutWalkBreaksSkipEmpty(Head(breaks)[2], Tail(breaks), finish)

\* for (bs, be) in &a.breaks { intervals.push((cursor, *bs)); cursor = *be; }
\* intervals.push((cursor, finish));
RECURSIVE WalkBreaks(_, _, _)
WalkBreaks(cursor, breaks, finish) ==
    IF breaks = <<>> THEN << <<cursor, finish>> >>
    ELSE << <<cursor, Head(breaks)[1]>> >>
         \o WalkBreaks(Head(breaks)[2], Tail(breaks), finish)

\* mutant: a break still pending at finish is closed at the finish time
MutIntervalsClosePending(a, finish) ==
    IF a.last_break_start = <<>> THEN WalkBreaks(a.start, a.breaks, finish)
    ELSE WalkBreaks(a.start,
                    Append(a.breaks, <<a.last_break_start[1], finish>>),
                    finish)

Intervals(a, finish) == WalkBreaks(a.start, a.breaks, finish)

\* intervals.map(|(s, e)| format!("{}~{}", s.format("%H:%M"), e.format("%H:%M"))), joined by ","
TimeRange(intervals) ==
    [i \in 1..Len(intervals) |->
        <<FormatHM(intervals[i][1]), FormatHM(intervals[i][2])>>]

\* mutant: the session is dated by its finish
MutMakeSessionDateOfFinish(a, dt, content) ==
    [date |-> FormatDate(dt),
     time_range |-> TimeRange(Intervals(a, dt)),
     content |-> content]

\* Session { date, time_range, content: e.content }
MakeSession(a, dt, content) ==
    [date |-> FormatDate(a.start),
     time_range |-> TimeRange(Intervals(a, dt)),
     content |-> content]

\* mutant: the active session is read, not taken
MutOnFinishActiveKeep(a, dt) == a

\* "finish" => if let Some(a) = active.take() { ...; sessions.push(Session {..}) }
OnFinishActive(a, dt) == <<>>

OnFinishSessions(ss, a, dt, content) ==
    IF a = <<>> THEN ss
    ELSE Append(ss, MakeSession(a[1], dt, content))

\* match e.ty.as_str() { ... _ => {} }: the new value of `active`
NextActive(a, e, dt) ==
    CASE e.ty = "start" -> OnStart(a, dt)
      [] e.ty = "break_start" -> OnBreakStart(a, dt)
      [] e.ty = "break_end" -> OnBreakEnd(a, dt)
      [] e.ty = "finish" -> OnFinishActive(a, dt)
      [] OTHER -> a

\* ... and of `sessions`
NextSessions(ss, a, e, dt) ==
    IF e.ty = "finish" THEN OnFinishSessions(ss, a, dt, e.content) ELSE ss

\* one iteration of `for e in events`, and the history it leaves
Iterate(e) ==
    /\ last' = <<e>>
    /\ before' = active
    /\ n' = n + 1
    /\ IF ParseRfc3339(e.ts) = <<>>
       THEN /\ pc' = "panicked"
            /\ UNCHANGED <<active, sessions, lastStart, spans, endsSince,
                           nStart, nMatched, marks>>
       ELSE LET dt == ParseRfc3339(e.ts)[1] IN
            /\ pc' = "loop"
            /\ active' = NextActive(active, e, dt)
            /\ sessions' = NextSessions(sessions, active, e, dt)
            /\ lastStart' = CASE e.ty = "start" -> <<dt>>
                               [] e.ty = "finish" -> <<>>
                               [] OTHER -> lastStart
            /\ spans' = IF e.ty = "finish" /\ lastStart # <<>>
                        THEN Append(spans, [start |-> lastStart[1], finish |-> dt])
                        ELSE spans
            /\ endsSince' = CASE e.ty = "start" -> 0
                               [] e.ty = "break_end" -> endsSince + 1
                               [] OTHER -> endsSince
            /\ nStart' = IF e.ty = "start" THEN nStart + 1 ELSE nStart
            /\ nMatched' = IF e.ty = "finish" /\ active # <<>>
                           THEN nMatched + 1 ELSE nMatched
            /\ marks' = CASE e.ty = "start" -> <<>>
                           [] e.ty \in {"break_start", "break_end"}
                                /\ lastStart # <<>> ->
                                Append(marks, [ty |-> e.ty, ts |-> dt])
                           [] OTHER -> marks

\* ------------------------------------------------------------------- f64
\* An f64 is [neg, m, e]: the number (-1)^neg * m * 2^e, its significand m
\* a natural number of exactly Mantissa bits; zero is the empty
\* significand.  Every operation yields the exact result rounded to the
\* nearest such number, ties to the even one, as IEEE 754 defines it.
\* A natural number is the sequence of its digits to the base 2^LimbBits,
\* lowest first, the highest not 0.
Mantissa == 53
LimbBits == 15
Base == 2^LimbBits

RECURSIVE NatLimbs(_)
NatLimbs(k) == IF k = 0 THEN <<>> ELSE <<k % Base>> \o NatLimbs(k \div Base)

RECURSIVE LimbsNat(_)
LimbsNat(a) == IF a = <<>> THEN 0 ELSE a[1] + Base * LimbsNat(Tail(a))

RECURSIVE TrimHigh(_)
TrimHigh(a) ==
    IF a = <<>> THEN <<>>
    ELSE IF a[Len(a)] # 0 THEN a
    ELSE TrimHigh(SubSeq(a, 1, Len(a) - 1))

LimbAt(a, i) == IF i >= 1 /\ i <= Len(a) THEN a[i] ELSE 0

\* a + b + carry
RECURSIVE AddLimbs(_, _, _)
AddLimbs(a, b, carry) ==
    IF a = <<>> /\ b = <<>> THEN NatLimbs(carry)
    ELSE LET s == LimbAt(a, 1) + LimbAt(b, 1) + carry IN
         <<s % Base>> \o AddLimbs(IF a = <<>> THEN a ELSE Tail(a),
                                  IF b = <<>> THEN b ELSE Tail(b),
                                  s \div Base)

\* a - b - borrow, for a >= b + borrow
RECURSIVE SubLimbs(_, _, _)
SubLimbs(a, b, borrow) ==
    IF a = <<>> THEN <<>>
    ELSE LET d == a[1] - LimbAt(b, 1) - borrow IN
         <<d % Base>> \o SubLimbs(Tail(a), IF b = <<>> THEN b ELSE Tail(b),
                                  IF d < 0 THEN 1 ELSE 0)

\* a < b
LessLimbs(a, b) ==
    \/ Len(a) < Len(b)
    \/ /\ Len(a) = Len(b)
       /\ \E i \in 1..Len(a) :
            /\ a[i] < b[i]
            /\ \A j \in (i + 1)..Len(a) : a[j] = b[j]

\* a * k + carry, for k < Base
RECURSIVE MulSmall(_, _, _)
MulSmall(a, k, carry) ==
    IF a = <<>> THEN NatLimbs(carry)
    ELSE LET p == a[1] * k + carry IN
         <<p % Base>> \o MulSmall(Tail(a), k, p \div Base)

RECURSIVE MulLimbs(_, _)
MulLimbs(a, b) ==
    IF b = <<>> THEN <<>>
    ELSE TrimHigh(AddLimbs(MulSmall(a, b[1], 0), <<0>> \o MulLimbs(a, Tail(b)), 0))

\* the digits i..1 of a divided by d < Base, after a remainder r left by
\* the digits above them: <<quotient, remainder>>
RECURSIVE DivSmall(_, _, _, _)
DivSmall(a, d, i, r) ==
    IF i = 0 THEN <<<<>>, r>>
    ELSE LET r2 == r * Base + a[i]
             low == DivSmall(a, d, i - 1, r2 % d)
         IN <<Append(low[1], r2 \div d), low[2]>>

BitLen(a) ==
    IF a = <<>> THEN 0
    ELSE LimbBits * (Len(a) - 1)
         + (CHOOSE w \in 1..LimbBits : 2^(w - 1) <= a[Len(a)] /\ a[Len(a)] < 2^w)

\* a * 2^k
ShiftLeft(a, k) ==
    IF a = <<>> THEN <<>>
    ELSE [i \in 1..(k \div LimbBits) |-> 0] \o MulSmall(a, 2^(k % LimbBits), 0)

\* a div 2^k and a mod 2^k
Split(a, k) ==
    LET w == k \div LimbBits IN
    IF w >= Len(a) THEN <<<<>>, a>>
    ELSE LET top == SubSeq(a, w + 1, Len(a))
             qr == DivSmall(top, 2^(k % LimbBits), Len(top), 0)
         IN <<TrimHigh(qr[1]), TrimHigh(Append(SubSeq(a, 1, w), qr[2]))>>

\* a mod 2^k against 2^(k-1): "less", "half" or "more"
Fraction(a, k) ==
    LET low == Split(a, k)[2]
        half == ShiftLeft(<<1>>, k - 1)
    IN IF low = half THEN "half" ELSE IF LessLimbs(low, half) THEN "less" ELSE "more"

Zero == [neg |-> FALSE, m |-> <<>>, e |-> 0]

\* (m + a fraction, which is not 0 iff sticky) * 2^e, rounded
Round(neg, m, e, sticky) ==
    LET len == BitLen(m) IN
    IF m = <<>> THEN Zero
    ELSE IF len <= Mantissa
    THEN [neg |-> neg, m |-> ShiftLeft(m, Mantissa - len), e |-> e - (Mantissa - len)]
    ELSE LET d == len - Mantissa
             kept == Split(m, d)[1]
             f == Fraction(m, d)
             up == f = "more" \/ (f = "half" /\ (sticky \/ kept[1] % 2 = 1))
             r == IF up THEN AddLimbs(kept, <<1>>, 0) ELSE kept
         IN IF BitLen(r) > Mantissa
            THEN [neg |-> neg, m |-> Split(r, 1)[1], e |-> e + d + 1]
            ELSE [neg |-> neg, m |-> r, e |-> e + d]

Abs(k) == IF k < 0 THEN -k ELSE k

\* `k as f64`
FromInt(k) == Round(k < 0, NatLimbs(Abs(k)), 0, FALSE)

\* `k as f64 / d as f64`, for 0 < d < 2^7: the quotient of k * 2^(Mantissa + 7)
\* by d has more than Mantissa bits, and the remainder is the sticky fraction
DivInt(k, d) ==
    LET a == ShiftLeft(NatLimbs(Abs(k)), Mantissa + 7)
        qr == DivSmall(a, d, Len(a), 0)
    IN Round(k < 0, TrimHigh(qr[1]), -(Mantissa + 7), qr[2] # 0)

\* -x
Neg(x) == IF x.m = <<>> THEN x ELSE [x EXCEPT !.neg = ~x.neg]

\* x + y
Add(x, y) ==
    IF x.m = <<>> THEN y
    ELSE IF y.m = <<>> THEN x
    ELSE LET e == IF x.e < y.e THEN x.e ELSE y.e
             a == ShiftLeft(x.m, x.e - e)
             b == ShiftLeft(y.m, y.e - e)
         IN IF x.neg = y.neg THEN Round(x.neg, AddLimbs(a, b, 0), e, FALSE)
            ELSE IF a = b THEN Zero
            ELSE IF LessLimbs(a, b)
                 THEN Round(y.neg, TrimHigh(SubLimbs(b, a, 0)), e, FALSE)
                 ELSE Round(x.neg, TrimHigh(SubLimbs(a, b, 0)), e, FALSE)

\* x * y
Mul(x, y) ==
    IF x.m = <<>> \/ y.m = <<>> THEN Zero
    ELSE Round(x.neg # y.neg, MulLimbs(x.m, y.m), x.e + y.e, FALSE)

\* the integer part of |x|, for |x| < 2^31
IntPart(x) ==
    IF x.m = <<>> THEN 0
    ELSE IF x.e >= 0 THEN LimbsNat(ShiftLeft(x.m, x.e))
    ELSE LimbsNat(Split(x.m, -x.e)[1])

\* the fraction of |x| is a half or more
HalfOrMore(x) == x.m # <<>> /\ x.e < 0 /\ Fraction(x.m, -x.e) # "less"

\* `x.floor() as u64` and `x.round() as u64`: the cast of a negative number
\* is 0, and round() rounds a half away from zero
FloorU64(x) == IF x.neg THEN 0 ELSE IntPart(x)

RoundU64(x) == IF x.neg THEN 0 ELSE IntPart(x) + (IF HalfOrMore(x) THEN 1 ELSE 0)

\* format!("{x:.2}"): the sign and the hundredths of the exact value
\* rounded to the nearest hundredth, ties to the even one
Fixed2(x) ==
    LET c == MulSmall(x.m, 100, 0)
        whole == IntPart([x EXCEPT !.m = c])
        f == IF x.m # <<>> /\ x.e < 0 THEN Fraction(c, -x.e) ELSE "less"
        up == f = "more" \/ (f = "half" /\ whole % 2 = 1)
    IN [neg |-> x.neg, hundredths |-> IF up THEN whole + 1 ELSE whole]

\* ---------------------------------------------------------------- reports
\* rate: Option<f64>, here None or a whole number
Rates == {<<>>, <<1000>>}

\* rate.unwrap_or(0.0)
UnwrapRate(r) == IF r = <<>> THEN Zero ELSE FromInt(r[1])

\* s.content.unwrap_or_default()
UnwrapOrDefault(c) == IF c = <<>> THEN "" ELSE c[1]

\* println!("| {} | {} | {} |", s.date, s.time_range, s.content.unwrap_or_default())
TableRow(s) ==
    [date |-> s.date, time_range |-> s.time_range,
     content |-> UnwrapOrDefault(s.content)]

\* export_markdown's output: the two header lines, a row per session, a
\* blank line
MarkdownTable(ss) ==
    [kind |-> "table", rows |-> [i \in 1..Len(ss) |-> TableRow(ss[i])]]

\* &s.date[..7], the "YYYY/MM" of "YYYY/MM/DD": date 1 is the last day of
\* month 1, dates 2 and 3 are the first days of month 2, and so on
MonthKey(date) == date \div 2 + 1

\* (en - st).num_minutes(), st and en the NaiveTime of "HH:MM~HH:MM"
NumMinutes(part) == (part[2] - part[1]) * MinutesPerClock

PartMinutes(parts) == [i \in 1..Len(parts) |-> NumMinutes(parts[i])]

\* let mut total = 0f64; for each part: total += minutes as f64 / 60.0
RECURSIVE HoursOf(_, _)
HoursOf(minutes, acc) ==
    IF minutes = <<>> THEN acc
    ELSE HoursOf(Tail(minutes), Add(acc, DivInt(Head(minutes), 60)))

SessionHours(s) == HoursOf(PartMinutes(s.time_range), Zero)

\* for s in &sessions { *monthly.entry(month).or_default() += total }
RECURSIVE Monthly(_, _)
Monthly(ss, map) ==
    IF ss = <<>> THEN map
    ELSE LET k == MonthKey(Head(ss).date)
             old == IF k \in DOMAIN map THEN map[k] ELSE Zero
         IN Monthly(Tail(ss),
                    [j \in DOMAIN map \cup {k} |->
                        IF j = k THEN Add(old, SessionHours(Head(ss)))
                        ELSE map[j]])

\* the keys of a BTreeMap as its iterator yields them
RECURSIVE Ascending(_)
Ascending(keys) ==
    IF keys = {} THEN <<>>
    ELSE LET k == CHOOSE x \in keys : \A y \in keys : x <= y
         IN <<k>> \o Ascending(keys \ {k})

\* println!("| {m} | {hours_str} ({dec_str}) | {salary} |") of the month m,
\* its total h and the rate r: hours_str is "{hours_i}h{mins:02}m" and
\* dec_str is "{h:.2}h"
MonthRow(m, h, r) ==
    LET hours_i == FloorU64(h) IN
    [month |-> m,
     hours_i |-> hours_i,
     mins |-> RoundU64(Mul(Add(h, Neg(FromInt(hours_i))), FromInt(60))),
     dec |-> Fixed2(h),
     salary |-> RoundU64(Mul(h, r))]

\* summary_markdown's output: the two header lines, a row per month, a
\* blank line
MonthlySummary(ss, r) ==
    LET monthly == Monthly(ss, <<>>)
        keys == Ascending(DOMAIN monthly)
    IN [kind |-> "summary",
        rows |-> [i \in 1..Len(keys) |->
                     MonthRow(keys[i], monthly[keys[i]], UnwrapRate(r))]]

\* i64's `/` and `%`: the quotient is truncated toward zero
Quot(a, b) == IF a >= 0 THEN a \div b ELSE -((-a) \div b)

Rem(a, b) == a - b * Quot(a, b)

\* mutant: the sessions are not filtered
MutSameMonthAll(ss, first_ym) == ss

\* sessions.iter().filter(|s| s.date.starts_with(first_ym))
SameMonth(ss, first_ym) ==
    SelectSeq(ss, LAMBDA s : MonthKey(s.date) = first_ym)

RECURSIVE SumOf(_)
SumOf(minutes) ==
    IF minutes = <<>> THEN 0 ELSE Head(minutes) + SumOf(Tail(minutes))

\* total_minutes += (en - st).num_minutes(), over the segments of the
\* filtered sessions
RECURSIVE TotalMinutes(_)
TotalMinutes(ss) ==
    IF ss = <<>> THEN 0
    ELSE SumOf(PartMinutes(Head(ss).time_range)) + TotalMinutes(Tail(ss))

\* the sheet export_excel writes for a list of sessions that is not empty:
\* the title of the first session's month, a row per session of that
\* month, and the total "{hours}時間{minutes}分"
Workbook(ss) ==
    LET first_ym == MonthKey(ss[1].date)
        filtered == SameMonth(ss, first_ym)
        total_minutes == TotalMinutes(filtered)
    IN [title |-> first_ym,
        rows |-> [i \in 1..Len(filtered) |-> TableRow(filtered[i])],
        hours |-> Quot(total_minutes, 60),
        minutes |-> Rem(total_minutes, 60)]

\* mutant: the skip is reported as a generated file
MutSkipMessageGenerated == [kind |-> "generated", rows |-> <<>>]

\* println!("Log data is empty. Skipping Excel output.")
SkipMessage == [kind |-> "skipped", rows |-> <<>>]

\* println!("Generated Excel file: {}", out_path.display())
GeneratedMessage == [kind |-> "generated", rows |-> <<>>]

\* ------------------------------------------------------- the parts at rest
\* no command is run
NoRun ==
    /\ cmd = "none"
    /\ source = "file"
    /\ log = <<>>
    /\ consumed = FALSE
    /\ opens = 0
    /\ built = <<>>

\* nothing is printed or written
NoReport ==
    /\ rate = <<>>
    /\ out = <<>>
    /\ xlsx = <<>>

\* no line is written or read back
NoEscape ==
    /\ text = <<>>
    /\ line = <<>>
    /\ parsed = <<>>

\* no month is summed
NoLabel ==
    /\ terms = <<>>
    /\ total = Zero
    /\ row = <<>>

\* build_sessions is not called step by step
NoBuild ==
    /\ input = <<>>
    /\ events = <<>>
    /\ active = <<>>
    /\ sessions = <<>>
    /\ last = <<>>
    /\ before = <<>>
    /\ lastStart = <<>>
    /\ spans = <<>>
    /\ endsSince = 0
    /\ nStart = 0
    /\ nMatched = 0
    /\ n = 0
    /\ marks = <<>>

\* ------------------------------------------------------------------ Spec
\* mutant: the list is not sorted
MutInSortedOrderAny(prev, e) == TRUE

\* events.sort_by_key(|e| e.ts.clone()): what the loop sees next is no
\* smaller in key than what it saw last
InSortedOrder(prev, e) ==
    IF prev = <<>> THEN TRUE ELSE KeyLeq(TsKey(prev[1].ts), TsKey(e.ts))

Init ==
    /\ input = <<>>
    /\ events = <<>>
    /\ pc = "loop"
    /\ active = <<>>
    /\ sessions = <<>>
    /\ last = <<>>
    /\ before = <<>>
    /\ lastStart = <<>>
    /\ spans = <<>>
    /\ endsSince = 0
    /\ nStart = 0
    /\ nMatched = 0
    /\ n = 0
    /\ marks = <<>>
    /\ NoRun
    /\ NoReport
    /\ NoEscape
    /\ NoLabel

LoopIter ==
    /\ pc = "loop"
    /\ n < MaxEvents
    /\ \E e \in LocalEvent :
        /\ InSortedOrder(last, e)
        /\ Iterate(e)
    /\ UNCHANGED <<input, events>>
    /\ UNCHANGED <<runVars, reportVars, escapeVars, labelVars>>

Next == LoopIter

Spec == Init /\ [][Next]_vars

\* ------------------------------------------------------------- SpecZones
ZoneIter ==
    /\ pc = "loop"
    /\ n < MaxZoneEvents
    /\ \E e \in ZonePunch :
        /\ InSortedOrder(last, e)
        /\ Iterate(e)
    /\ UNCHANGED <<input, events>>
    /\ UNCHANGED <<runVars, reportVars, escapeVars, labelVars>>

NextZones == ZoneIter

SpecZones == Init /\ [][NextZones]_vars

\* ------------------------------------------------------------- SpecBatch
\* mutant: an element goes before the elements of its own key
RECURSIVE MutInsertByKeyBeforeTies(_, _)
MutInsertByKeyBeforeTies(sorted, e) ==
    IF sorted = <<>> THEN <<e>>
    ELSE IF ~KeyLess(TsKey(Head(sorted).ts), TsKey(e.ts)) THEN <<e>> \o sorted
    ELSE <<Head(sorted)>> \o MutInsertByKeyBeforeTies(Tail(sorted), e)

\* sort_by_key is a stable sort: an element goes after every element whose
\* key is not greater than its own
RECURSIVE InsertByKey(_, _)
InsertByKey(sorted, e) ==
    IF sorted = <<>> THEN <<e>>
    ELSE IF KeyLess(TsKey(e.ts), TsKey(Head(sorted).ts)) THEN <<e>> \o sorted
    ELSE <<Head(sorted)>> \o InsertByKey(Tail(sorted), e)

\* mutant: the list is not sorted
MutSortByKeyNoSort(s) == s

RECURSIVE SortByKey(_)
SortByKey(s) ==
    IF s = <<>> THEN <<>>
    ELSE InsertByKey(SortByKey(SubSeq(s, 1, Len(s) - 1)), s[Len(s)])

InitBatch ==
    /\ input = <<>>
    /\ events = <<>>
    /\ pc = "read"
    /\ active = <<>>
    /\ sessions = <<>>
    /\ last = <<>>
    /\ before = <<>>
    /\ lastStart = <<>>
    /\ spans = <<>>
    /\ endsSince = 0
    /\ nStart = 0
    /\ nMatched = 0
    /\ n = 0
    /\ marks = <<>>
    /\ NoRun
    /\ NoReport
    /\ NoEscape
    /\ NoLabel

\* the caller's read_events: events.push(LogEvent { ts, ty, content }) for
\* a line of the event shape
ReadEvent ==
    /\ pc = "read"
    /\ Len(input) < MaxLen
    /\ \E e \in LocalEvent : input' = Append(input, e)
    /\ UNCHANGED <<events, pc, active, sessions, last, before, lastStart,
                   spans, endsSince, nStart, nMatched, n, marks>>
    /\ UNCHANGED <<runVars, reportVars, escapeVars, labelVars>>

\* the input is read to its end and handed to build_sessions, which begins
\* with events.sort_by_key(|e| e.ts.clone())
SortEvents ==
    /\ pc = "read"
    /\ events' = SortByKey(input)
    /\ pc' = "loop"
    /\ UNCHANGED <<input, active, sessions, last, before, lastStart, spans,
                   endsSince, nStart, nMatched, n, marks>>
    /\ UNCHANGED <<runVars, reportVars, escapeVars, labelVars>>

\* for e in events { ... }
BatchIter ==
    /\ pc = "loop"
    /\ events # <<>>
    /\ Iterate(Head(events))
    /\ events' = Tail(events)
    /\ UNCHANGED input
    /\ UNCHANGED <<runVars, reportVars, escapeVars, labelVars>>

\* the list is exhausted: `sessions` is returned
BatchEnd ==
    /\ pc = "loop"
    /\ events = <<>>
    /\ pc' = "done"
    /\ UNCHANGED <<buildVars, runVars, reportVars, escapeVars, labelVars>>

NextBatch == ReadEvent \/ SortEvents \/ BatchIter \/ BatchEnd

SpecBatch == InitBatch /\ [][NextBatch]_vars

\* build_sessions as a function of its argument: what it returns, or that
\* it panicked
RECURSIVE RunLoop(_, _, _)
RunLoop(evs, a, ss) ==
    IF evs = <<>> THEN <<"returned", ss>>
    ELSE LET e == Head(evs)
             p == ParseRfc3339(e.ts)
         IN IF p = <<>> THEN <<"panicked">>
            ELSE RunLoop(Tail(evs), NextActive(a, e, p[1]),
                         NextSessions(ss, a, e, p[1]))

BuildSessions(evs) == RunLoop(SortByKey(evs), <<>>, <<>>)

\* ------------------------------------------------------------ SpecReport
\* the four punches, without content, at any date in the offset 0, and
\* the finish at the first date in the other offset
ReportPunch ==
    [ts : [date : 1..MaxDate, clock : 0..MaxClock, off : {0}],
     ty : Types \ {"note"}, content : {<<>>}]
    \cup [ts : [date : {1}, clock : 0..MaxClock, off : {MaxOffset}],
          ty : {"finish"}, content : {<<>>}]

ReportIter ==
    /\ pc = "loop"
    /\ n < MaxZoneEvents
    /\ \E e \in ReportPunch :
        /\ InSortedOrder(last, e)
        /\ Iterate(e)
    /\ UNCHANGED <<input, events>>
    /\ UNCHANGED <<runVars, reportVars, escapeVars, labelVars>>

\* summary_markdown from `let mut monthly` on, for the sessions
\* build_sessions returned
ReportSummary ==
    /\ pc = "loop"
    /\ \E r \in Rates :
        /\ rate' = r
        /\ out' = Append(out, MonthlySummary(sessions, r))
    /\ pc' = "done"
    /\ UNCHANGED <<buildVars, runVars, xlsx, escapeVars, labelVars>>

\* export_excel from `if sessions.is_empty()` on, for the sessions
\* build_sessions returned
ReportExcel ==
    /\ pc = "loop"
    /\ IF sessions = <<>>
       THEN /\ out' = Append(out, SkipMessage)
            /\ xlsx' = xlsx
       ELSE /\ out' = Append(out, GeneratedMessage)
            /\ xlsx' = <<Workbook(sessions)>>
    /\ pc' = "done"
    /\ UNCHANGED <<buildVars, runVars, rate, escapeVars, labelVars>>

NextReport == ReportIter \/ ReportSummary \/ ReportExcel

SpecReport == Init /\ [][NextReport]_vars

\* --------------------------------------------------------------- SpecRun
\* a line the regex of read_events does not match: the type it finds is empty
Blank == [ts |-> BadTs, ty |-> "", content |-> <<>>]

\* the lines of a log: starts and finishes of one date and one offset,
\* lines of the event shape whose timestamp is no RFC 3339 time, and the
\* line of another shape
RunLine ==
    [ts : [date : {1}, clock : 0..MaxClock, off : {0}],
     ty : {"start", "finish"}, content : {<<>>}]
    \cup [ts : {BadTs}, ty : {"start", "note"}, content : {<<>>}]
    \cup {Blank}

Sources == {"file", "stdin"}

\* if let Some(caps) = re.captures(&line)
Matches(l) == l.ty # ""

\* read_events(input): a file is opened and read from its first line, the
\* standard input yields what has not been read from it yet
ReadEvents(src, lines, eof) ==
    IF src = "stdin" /\ eof THEN <<>> ELSE SelectSeq(lines, Matches)

InitRun ==
    /\ pc = "log"
    /\ NoBuild
    /\ NoRun
    /\ NoReport
    /\ NoEscape
    /\ NoLabel

\* the log grows by a line before the run
WriteLog ==
    /\ pc = "log"
    /\ Len(log) < MaxLen
    /\ \E l \in RunLine : log' = Append(log, l)
    /\ UNCHANGED <<pc, buildVars, cmd, source, consumed, opens, built,
                   reportVars, escapeVars, labelVars>>

\* Commands::Summary { input, rate } => export_markdown(input.clone())?
ExportMarkdown ==
    /\ pc = "log"
    /\ \E src \in Sources, r \in Rates :
        LET res == BuildSessions(ReadEvents(src, log, consumed)) IN
        /\ cmd' = "summary"
        /\ source' = src
        /\ rate' = r
        /\ opens' = opens + 1
        /\ consumed' = (src = "stdin")
        /\ IF res[1] = "panicked"
           THEN /\ pc' = "panicked"
                /\ UNCHANGED <<built, out>>
           ELSE /\ pc' = "summary"
                /\ built' = Append(built, res[2])
                /\ out' = Append(out, MarkdownTable(res[2]))
    /\ UNCHANGED <<buildVars, log, xlsx, escapeVars, labelVars>>

\* ... and then summary_markdown(input, rate)?
SummaryMarkdown ==
    /\ pc = "summary"
    /\ LET res == BuildSessions(ReadEvents(source, log, consumed)) IN
        /\ opens' = opens + 1
        /\ consumed' = (source = "stdin")
        /\ IF res[1] = "panicked"
           THEN /\ pc' = "panicked"
                /\ UNCHANGED <<built, out>>
           ELSE /\ pc' = "done"
                /\ built' = Append(built, res[2])
                /\ out' = Append(out, MonthlySummary(res[2], rate))
    /\ UNCHANGED <<buildVars, cmd, source, log, rate, xlsx, escapeVars,
                   labelVars>>

\* Commands::Excel { input, output } => export_excel(input, output)?
ExportExcel ==
    /\ pc = "log"
    /\ \E src \in Sources :
        LET res == BuildSessions(ReadEvents(src, log, consumed)) IN
        /\ cmd' = "excel"
        /\ source' = src
        /\ opens' = opens + 1
        /\ consumed' = (src = "stdin")
        /\ IF res[1] = "panicked"
           THEN /\ pc' = "panicked"
                /\ UNCHANGED <<built, out, xlsx>>
           ELSE /\ pc' = "done"
                /\ built' = Append(built, res[2])
                /\ IF res[2] = <<>>
                   THEN /\ out' = Append(out, SkipMessage)
                        /\ xlsx' = xlsx
                   ELSE /\ out' = Append(out, GeneratedMessage)
                        /\ xlsx' = <<Workbook(res[2])>>
    /\ UNCHANGED <<buildVars, log, rate, escapeVars, labelVars>>

NextRun == WriteLog \/ ExportMarkdown \/ SummaryMarkdown \/ ExportExcel

SpecRun == InitRun /\ [][NextRun]_vars

\* ------------------------------------------------------------ SpecEscape
\* the characters of a content: a letter, the double quote, the backslash
Chars == {"a", "\"", "\\"}

\* c.replace('"', "\\\"")
RECURSIVE Escape(_)
Escape(c) ==
    IF c = <<>> THEN <<>>
    ELSE (IF Head(c) = "\"" THEN <<"\\", "\"">> ELSE <<Head(c)>>)
         \o Escape(Tail(c))

\* the line record_event prints: format!("ts={ts} type={event_type}"), in
\* which no space is but the one that parts them, and for Some(c) the
\* characters of format!(" content=\"{esc}\"")
Line(ts, event_type, content) ==
    [ts |-> ts, ty |-> event_type,
     rest |-> IF content = <<>> THEN <<>>
              ELSE <<" content=\"">> \o Escape(content[1]) \o <<"\"">>]

\* the last double quote at or before position i of s, or 0
RECURSIVE LastQuote(_, _)
LastQuote(s, i) ==
    IF i = 0 THEN 0
    ELSE IF s[i] = "\"" THEN i
    ELSE LastQuote(s, i - 1)

\* (?: content="(?P<ct>.*)")? after the type: `.*` is greedy, it ends
\* before the last double quote of the line
CaptureContent(rest) ==
    IF rest = <<>> THEN <<>>
    ELSE IF rest[1] # " content=\"" THEN <<>>
    ELSE LET q == LastQuote(rest, Len(rest)) IN
         IF q < 2 THEN <<>> ELSE <<SubSeq(rest, 2, q - 1)>>

\* LogEvent { ts: caps["ts"], ty: caps["ty"], content: caps.name("ct") }
Captures(l) ==
    [ts |-> l.ts, ty |-> l.ty, content |-> CaptureContent(l.rest)]

\* `finish` is given no content, or the empty one
InitEscape ==
    /\ pc = "type"
    /\ NoBuild
    /\ NoRun
    /\ NoReport
    /\ text \in {<<>>, << <<>> >>}
    /\ line = <<>>
    /\ parsed = <<>>
    /\ NoLabel

\* the content grows by a character
TypeChar ==
    /\ pc = "type"
    /\ text # <<>>
    /\ Len(text[1]) < MaxText
    /\ \E c \in Chars : text' = <<Append(text[1], c)>>
    /\ UNCHANGED <<pc, buildVars, runVars, reportVars, line, parsed,
                   labelVars>>

\* Commands::Finish { content } => record_event("finish", content)?
RecordEvent ==
    /\ pc = "type"
    /\ \E ts \in [date : {1}, clock : 0..MaxClock, off : {0}] :
        line' = <<Line(ts, "finish", text)>>
    /\ pc' = "written"
    /\ UNCHANGED <<buildVars, runVars, reportVars, text, parsed, labelVars>>

\* read_events on the line written
ReadLine ==
    /\ pc = "written"
    /\ parsed' = <<Captures(line[1])>>
    /\ pc' = "read"
    /\ UNCHANGED <<buildVars, runVars, reportVars, text, line, labelVars>>

NextEscape == TypeChar \/ RecordEvent \/ ReadLine

SpecEscape == InitEscape /\ [][NextEscape]_vars

\* ------------------------------------------------------------- SpecLabel
\* the minutes a session of one interval may last
SessionMinutes == {18, 21, 30, 45, 60}

InitLabel ==
    /\ pc = "sum"
    /\ NoBuild
    /\ NoRun
    /\ NoReport
    /\ NoEscape
    /\ NoLabel

\* a session of one interval of m minutes is added to the month:
\* total += m as f64 / 60.0; *monthly.entry(month).or_default() += total
AddSession ==
    /\ pc = "sum"
    /\ Len(terms) < MaxSessions
    /\ \E m \in SessionMinutes :
        /\ terms' = Append(terms, m)
        /\ total' = Add(total, HoursOf(<<m>>, Zero))
    /\ UNCHANGED <<pc, buildVars, runVars, reportVars, escapeVars, row>>

\* the month's row is printed
PrintRow ==
    /\ pc = "sum"
    /\ terms # <<>>
    /\ \E r \in Rates :
        /\ rate' = r
        /\ row' = <<MonthRow(1, total, UnwrapRate(r))>>
    /\ pc' = "done"
    /\ UNCHANGED <<buildVars, runVars, out, xlsx, escapeVars, terms, total>>

NextLabel == AddSession \/ PrintRow

SpecLabel == InitLabel /\ [][NextLabel]_vars

\* ----------------------------------------------------------------- claims
\* the last iteration consumed an event of type ty and did not panic
Consumed(ty) == last # <<>> /\ pc # "panicked" /\ last[1].ty = ty

\* ... while a session was active
ConsumedActive(ty) == Consumed(ty) /\ before # <<>>

LastSession == sessions[Len(sessions)]

\* (start, b1.start), (b1.end, b2.start), ..., (bn.end, finish), as HH:MM
ExpectedRange(a, fin) ==
    LET k == Len(a.breaks) IN
    [i \in 1..(k + 1) |->
        <<FormatHM(IF i = 1 THEN a.start ELSE a.breaks[i - 1][2]),
          FormatHM(IF i = k + 1 THEN fin ELSE a.breaks[i][1])>>]

\* C1: a `finish` consumed while a session is active with closed breaks
\* b1..bn emits a session whose intervals are exactly (start, b1.start),
\* (b1.end, b2.start), ..., (bn.end, finish), which carries the finish
\* event's content, and leaves the state None.
C1_FinishEmitsIntervals ==
    ConsumedActive("finish") =>
        /\ active = <<>>
        /\ sessions # <<>>
        /\ LastSession.time_range = ExpectedRange(before[1], last[1].ts)
        /\ LastSession.content = last[1].content

\* a finish with content closed a session of two breaks
C1_Witness ==
    /\ ConsumedActive("finish")
    /\ Len(before[1].breaks) = 2
    /\ last[1].content # <<>>

\* C2 as stated: a `break_start` consumed while a break is pending, or
\* while no session is active, leaves the state as it was.
C2_BreakStartPendingNoOp ==
    Consumed("break_start") =>
        IF before = <<>> THEN active = before
        ELSE before[1].last_break_start # <<>> => active = before

\* C2 as amended: a `break_start` consumed while a session is active sets
\* the pending break start to its own time, whether or not a break was
\* pending, and leaves the session's start and closed breaks alone; consumed
\* while no session is active it leaves the state None.  The pair a
\* `break_end` closes begins at the pending break start it finds.
C2_BreakStartSetsPending ==
    /\ Consumed("break_start") =>
        IF before = <<>> THEN active = <<>>
        ELSE /\ active # <<>>
             /\ active[1].last_break_start = <<last[1].ts>>
             /\ active[1].start = before[1].start
             /\ active[1].breaks = before[1].breaks
    /\ (ConsumedActive("break_end") /\ before[1].last_break_start # <<>>) =>
        /\ active # <<>>
        /\ active[1].breaks # <<>>
        /\ active[1].breaks[Len(active[1].breaks)][1]
               = before[1].last_break_start[1]

\* a break_start replaced a pending break start of another time
C2_Witness ==
    /\ ConsumedActive("break_start")
    /\ before[1].last_break_start # <<>>
    /\ before[1].last_break_start # <<last[1].ts>>

\* what build_sessions did with `input`: the sessions returned, or a panic
Outcome ==
    IF pc = "panicked" THEN <<"panicked">> ELSE <<"returned", sessions>>

PermsOf(s) ==
    {[i \in 1..Len(s) |-> s[f[i]]] : f \in Permutations(1..Len(s))}

DistinctTs(s) ==
    \A i, j \in 1..Len(s) : i # j => s[i].ts # s[j].ts

\* C3 as stated: every permutation of the input list yields the same
\* sessions, also when events share a timestamp.
C3_AnyOrderSameSessions ==
    pc \in {"done", "panicked"} =>
        \A p \in PermsOf(input) : BuildSessions(p) = Outcome

\* C3 as amended: when the timestamps of the input events are pairwise
\* distinct, every permutation of the input list yields the same sessions.
C3_DistinctTsAnyOrderSameSessions ==
    (pc \in {"done", "panicked"} /\ DistinctTs(input)) =>
        \A p \in PermsOf(input) : BuildSessions(p) = Outcome

\* an input out of order, of distinct timestamps, that yields a session
C3_Witness ==
    /\ pc = "done"
    /\ DistinctTs(input)
    /\ input # SortByKey(input)
    /\ sessions # <<>>

\* C4: sessions are emitted in non-decreasing order of the instant of their
\* start, whatever the UTC offsets of the events.
C4_SessionsInStartOrder ==
    \A i, j \in 1..Len(spans) :
        i < j => Instant(spans[i].start) <= Instant(spans[j].start)

\* never reversed, never overlapping
WellOrdered(tr) ==
    \A i \in 1..Len(tr) :
        /\ tr[i][1] <= tr[i][2]
        /\ i > 1 => tr[i - 1][2] <= tr[i][1]

\* C5 as stated: the intervals of every emitted session are never reversed
\* and never overlapping.
C5_IntervalsWellOrdered ==
    \A i \in 1..Len(sessions) : WellOrdered(sessions[i].time_range)

\* C5 as amended: the intervals of every emitted session whose start and
\* finish show the same calendar date are never reversed and never
\* overlapping.
C5_SameDateIntervalsWellOrdered ==
    /\ Len(spans) = Len(sessions)
    /\ \A i \in 1..Len(sessions) :
        spans[i].start.date = spans[i].finish.date
            => WellOrdered(sessions[i].time_range)

\* a same-date session with a break, its start and finish of different offsets
C5_Witness ==
    \E i \in 1..Len(sessions) :
        /\ i <= Len(spans)
        /\ spans[i].start.date = spans[i].finish.date
        /\ spans[i].start.off # spans[i].finish.off
        /\ Len(sessions[i].time_range) >= 2

\* C6: a `start` consumed while a session is active discards that session
\* (start, closed breaks, pending break) and emits nothing; the next finish
\* emits one session, which begins at the latest start and has no more
\* breaks than were closed since it.
C6_RestartDiscardsPrior ==
    /\ ConsumedActive("start") =>
        /\ active = <<[start |-> last[1].ts, breaks |-> <<>>,
                       last_break_start |-> <<>>]>>
        /\ Len(sessions) = nMatched
    /\ ConsumedActive("finish") =>
        /\ Len(sessions) = nMatched
        /\ Len(spans) = Len(sessions)
        /\ before[1].start = spans[Len(spans)].start
        /\ LastSession.date = FormatDate(spans[Len(spans)].start)
        /\ LastSession.time_range[1][1] = FormatHM(spans[Len(spans)].start)
        /\ Len(LastSession.time_range) - 1 <= endsSince

\* two starts, then the one finish that found a session
C6_Witness ==
    /\ ConsumedActive("finish")
    /\ nStart = 2
    /\ nMatched = 1
    /\ endsSince = 0
    /\ n >= 5

\* C7: a break pending at `finish` adds no interval boundary: the session
\* is the one the same ActiveSession without the pending break yields, and
\* it ends at the finish time.
C7_PendingBreakDropped ==
    (ConsumedActive("finish") /\ before[1].last_break_start # <<>>) =>
        /\ sessions # <<>>
        /\ LastSession = MakeSession([before[1] EXCEPT !.last_break_start = <<>>],
                                     last[1].ts, last[1].content)
        /\ Len(LastSession.time_range) = Len(before[1].breaks) + 1
        /\ LastSession.time_range[Len(LastSession.time_range)][2]
               = FormatHM(last[1].ts)

\* a finish met a pending break whose clock is not the finish's
C7_Witness ==
    /\ ConsumedActive("finish")
    /\ before[1].last_break_start # <<>>
    /\ FormatHM(before[1].last_break_start[1]) # FormatHM(last[1].ts)
    /\ Len(before[1].breaks) = 1

\* C8: the sessions emitted are as many as the `finish` events that found
\* a session active, and at most as many as the `start` events; a `finish`
\* that finds none leaves the state None.
C8_OneSessionPerMatchedFinish ==
    /\ Len(sessions) = nMatched
    /\ Len(sessions) <= nStart
    /\ (Consumed("finish") /\ before = <<>>) => active = <<>>

\* a finish found no session active, after one was emitted
C8_Witness ==
    /\ Consumed("finish")
    /\ before = <<>>
    /\ Len(sessions) = 1
    /\ nStart = 2

\* the step consumes a `break_end` and does not panic
BreakEndStep ==
    /\ n' = n + 1
    /\ pc' # "panicked"
    /\ last'[1].ty = "break_end"

\* C9: a `break_end` consumed while a break is pending appends the one pair
\* (pending_start, this_time) to the end of breaks and clears the pending
\* break; otherwise it leaves the active session unchanged.  Either way
\* the emitted sessions are unchanged.
C9_BreakEndClosesPair ==
    [][BreakEndStep =>
        /\ sessions' = sessions
        /\ IF active # <<>> /\ active[1].last_break_start # <<>>
           THEN active' = <<[start |-> active[1].start,
                             breaks |-> Append(active[1].breaks,
                                               <<active[1].last_break_start[1],
                                                 last'[1].ts>>),
                             last_break_start |-> <<>>]>>
           ELSE active' = active]_vars

\* a break_end closed a second break
C9_Witness ==
    /\ ConsumedActive("break_end")
    /\ before[1].last_break_start # <<>>
    /\ Len(before[1].breaks) = 1
    /\ Len(active[1].breaks) = 2

\* C10: an emitted session has one sub-interval more than the closed break
\* pairs its ActiveSession held at `finish`, so at least one.
C10_IntervalsAreBreaksPlusOne ==
    /\ ConsumedActive("finish") =>
        /\ sessions # <<>>
        /\ Len(LastSession.time_range) = Len(before[1].breaks) + 1
    /\ \A i \in 1..Len(sessions) : Len(sessions[i].time_range) >= 1

\* a session of two breaks, the second begun when the first ended
C10_Witness ==
    /\ ConsumedActive("finish")
    /\ Len(before[1].breaks) = 2
    /\ before[1].breaks[1][2] = before[1].breaks[2][1]
    /\ Len(LastSession.time_range) = 3

\* a summary run has come to its end
SummaryDone == cmd = "summary" /\ pc = "done"

\* C11: in one summary run the input, a file or the standard input, is
\* opened and read to its end once, and the table and the monthly summary
\* are both computed from the one session sequence built from that read.
C11_OneReadOneSessionList ==
    SummaryDone =>
        /\ opens = 1
        /\ \A i, j \in 1..Len(built) : built[i] = built[j]

\* C12: the line record_event("finish", content) writes, parsed by
\* read_events, yields an event whose content is the content given, also
\* when the content holds a double quote.
C12_ContentRoundTrip ==
    parsed # <<>> => parsed[1].content = text

\* a line of the event shape whose timestamp does not parse
BadLine(l) == Matches(l) /\ l.ts = BadTs

\* C13: when a line of the event shape in the log has a timestamp that
\* does not parse, the run aborts and prints no table, no summary and no
\* message and writes no spreadsheet, wherever the line stands in the log
\* and whatever its type.
C13_BadTimestampAborts ==
    (pc # "log" /\ \E i \in 1..Len(log) : BadLine(log[i])) =>
        /\ pc = "panicked"
        /\ out = <<>>
        /\ xlsx = <<>>

\* a run aborted on a log that holds a whole session and, as a line not
\* the last, a note whose timestamp does not parse
C13_Witness ==
    /\ pc = "panicked"
    /\ Len(log) = 3
    /\ BadLine(log[2])
    /\ log[2].ty = "note"
    /\ BuildSessions(<<log[1], log[3]>>)[1] = "returned"
    /\ Len(BuildSessions(<<log[1], log[3]>>)[2]) = 1

\* the monthly summary of the sessions built has been printed
SummaryPrinted == pc = "done" /\ out # <<>> /\ out[1].kind = "summary"

\* the hours, summed in f64 in the order of emission, of those of the
\* sessions 1..i whose `start` is of month k, each the f64 sum over its
\* intervals of (end clock - start clock) in minutes / 60
RECURSIVE StartMonthHours(_, _)
StartMonthHours(k, i) ==
    IF i = 0 THEN Zero
    ELSE IF MonthKey(FormatDate(spans[i].start)) = k
    THEN Add(StartMonthHours(k, i - 1),
             HoursOf(PartMinutes(sessions[i].time_range), Zero))
    ELSE StartMonthHours(k, i - 1)

\* the months of the summary are the months of the starts of the sessions,
\* in ascending order, and the row of each is made of the total of the
\* sessions that start in it
CountedInStartMonth ==
    SummaryPrinted =>
        /\ Len(spans) = Len(sessions)
        /\ {out[1].rows[i].month : i \in 1..Len(out[1].rows)}
               = {MonthKey(FormatDate(spans[i].start)) : i \in 1..Len(spans)}
        /\ \A i, j \in 1..Len(out[1].rows) :
               i < j => out[1].rows[i].month < out[1].rows[j].month
        /\ \A i \in 1..Len(out[1].rows) :
               out[1].rows[i]
                   = MonthRow(out[1].rows[i].month,
                              StartMonthHours(out[1].rows[i].month, Len(sessions)),
                              UnwrapRate(rate))

RECURSIVE BreakLength(_)
BreakLength(breaks) ==
    IF breaks = <<>> THEN 0
    ELSE Instant(Head(breaks)[2]) - Instant(Head(breaks)[1])
         + BreakLength(Tail(breaks))

\* (finish - start) minus the total length of the closed breaks, in minutes
WorkedMinutes(a, fin) ==
    (Instant(fin) - Instant(a.start) - BreakLength(a.breaks)) * MinutesPerClock

\* the session a finish closes has its start, its closed breaks and its
\* finish in one UTC offset
OneOffset(a, fin) ==
    /\ a.start.off = fin.off
    /\ \A i \in 1..Len(a.breaks) :
           a.breaks[i][1].off = fin.off /\ a.breaks[i][2].off = fin.off

ExactSalary(T, r) == (2 * T * r + 60) \div 120

\* C15: for a month whose total is T minutes the label XhYYm has
\* X = floor(T / 60) and YY = T mod 60, so 0 <= YY < 60, and the salary is
\* round(T / 60 * rate), which is 0 when no rate is given.
C15_LabelOfWholeMinutes ==
    row # <<>> =>
        /\ row[1].hours_i = SumOf(terms) \div 60
        /\ row[1].mins = SumOf(terms) % 60
        /\ row[1].mins < 60
        /\ row[1].salary
               = IF rate = <<>> THEN 0 ELSE ExactSalary(SumOf(terms), rate[1])

\* the single-month detail of the sessions built has been written
ExcelWritten == pc = "done" /\ xlsx # <<>>

\* the sessions of the month of the first session, by their place
FirstMonth ==
    {i \in 1..Len(sessions) :
        MonthKey(sessions[i].date) = MonthKey(sessions[1].date)}

\* the k-th of a set of places
Nth(S, k) == CHOOSE i \in S : Cardinality({j \in S : j <= i}) = k

\* the minutes of all intervals of those of the sessions 1..i that are in S
RECURSIVE MinutesIn(_, _)
MinutesIn(S, i) ==
    IF i = 0 THEN 0
    ELSE MinutesIn(S, i - 1)
         + (IF i \in S THEN SumOf(PartMinutes(sessions[i].time_range)) ELSE 0)

\* C16: the rows of the single-month detail are the sessions whose month
\* is the month of the first session, and no others, in the order of the
\* sessions; the grand total is the sum in minutes of all intervals of
\* those sessions, shown as hours = total / 60 and minutes = total mod 60,
\* the quotient and the remainder of i64 (for a total below zero, the
\* quotient truncated toward zero and the remainder not above zero).
C16_RowsAndTotalOfFirstMonth ==
    ExcelWritten =>
        /\ Len(xlsx[1].rows) = Cardinality(FirstMonth)
        /\ \A k \in 1..Len(xlsx[1].rows) :
               xlsx[1].rows[k] = TableRow(sessions[Nth(FirstMonth, k)])
        /\ xlsx[1].hours * 60 + xlsx[1].minutes
               = MinutesIn(FirstMonth, Len(sessions))
        /\ IF MinutesIn(FirstMonth, Len(sessions)) >= 0
           THEN /\ xlsx[1].hours = MinutesIn(FirstMonth, Len(sessions)) \div 60
                /\ xlsx[1].minutes = MinutesIn(FirstMonth, Len(sessions)) % 60
           ELSE /\ xlsx[1].hours = -((-MinutesIn(FirstMonth, Len(sessions))) \div 60)
                /\ xlsx[1].minutes = -((-MinutesIn(FirstMonth, Len(sessions))) % 60)

\* a detail of the first of two months, its one session of more than an
\* hour and not of whole hours
C16_Witness ==
    /\ ExcelWritten
    /\ Len(sessions) = 2
    /\ Len(xlsx[1].rows) = 1
    /\ xlsx[1].hours >= 1
    /\ xlsx[1].minutes >= 1

\* the single-month detail has run over a log that build_sessions turns
\* into no session at all
ExcelOfNoSession ==
    /\ cmd = "excel"
    /\ pc # "log"
    /\ BuildSessions(ReadEvents("file", log, FALSE)) = <<"returned", <<>>>>

\* C17: when build_sessions yields no session (an empty log, or only
\* events that never complete a start/finish pair), the single-month
\* detail writes no spreadsheet, reports that there is nothing to export,
\* and ends without an error.
C17_NothingToExport ==
    ExcelOfNoSession =>
        /\ pc = "done"
        /\ xlsx = <<>>
        /\ Len(out) = 1
        /\ out[1].kind = "skipped"

\* a log of a finish and then a start, which pair into no session
C17_Witness ==
    /\ ExcelOfNoSession
    /\ Len(log) = 2
    /\ log[1].ty = "finish"
    /\ log[2].ty = "start"
    /\ TsKey(log[1].ts) # TsKey(log[2].ts)
    /\ out # <<>>

\* the events of `list` that carry the timestamp string ts, in their order
OfKey(list, ts) ==
    LET HasKey(e) == TsKey(e.ts) = TsKey(ts) IN SelectSeq(list, HasKey)

\* `order` lists `list` by ascending timestamp string, the events of one
\* timestamp string in the order they have in `list`
StableOrder(list, order) ==
    /\ Len(order) = Len(list)
    /\ \A i, j \in 1..Len(order) :
           i < j => ~KeyLess(TsKey(order[j].ts), TsKey(order[i].ts))
    /\ \A i \in 1..Len(list) : OfKey(order, list[i].ts) = OfKey(list, list[i].ts)
    /\ \A i \in 1..Len(order) : OfKey(order, order[i].ts) = OfKey(list, order[i].ts)

\* the one list in that order, built from a rearrangement of the places
Rearranged(list) ==
    LET Places == 1..Len(list)
        Bijections == {f \in [Places -> Places] : \A i, j \in Places : f[i] = f[j] => i = j}
    IN {[i \in Places |-> list[f[i]]] : f \in Bijections}

\* C18: the sort of build_sessions is stable and deterministic: the
\* events of one timestamp are processed in the order they have in the
\* input log, so the sessions of a log are a function of its list of
\* lines alone: there is one stable order of the log, the loop starts
\* from it, and what build_sessions yields is the loop run over it.
C18_StableSortDeterminesSessions ==
    /\ (pc = "loop" /\ n = 0) => StableOrder(input, events)
    /\ pc \in {"done", "panicked"} =>
           /\ Cardinality({o \in Rearranged(input) : StableOrder(input, o)}) = 1
           /\ \A o \in Rearranged(input) :
                  StableOrder(input, o) => Outcome = RunLoop(o, <<>>, <<>>)

\* a start and a finish of one timestamp, in that order in the log, have
\* made a session
C18_Witness ==
    /\ pc = "done"
    /\ Len(input) = 2
    /\ input[1].ty = "start"
    /\ input[2].ty = "finish"
    /\ TsKey(input[1].ts) = TsKey(input[2].ts)
    /\ Len(sessions) = 1

\* the break boundaries of a session's intervals: the end of an interval
\* and the start of the next
Boundaries(time_range) ==
    [i \in 1..(Len(time_range) - 1) |-> <<time_range[i][2], time_range[i + 1][1]>>]

\* each boundary pair, in order, is a break_start and a later break_end of
\* `ms`, the pairs one after another
RECURSIVE Paired(_, _)
Paired(bnds, ms) ==
    IF bnds = <<>> THEN TRUE
    ELSE \E p, q \in 1..Len(ms) :
            /\ p < q
            /\ ms[p].ty = "break_start"
            /\ ms[q].ty = "break_end"
            /\ FormatHM(ms[p].ts) = Head(bnds)[1]
            /\ FormatHM(ms[q].ts) = Head(bnds)[2]
            /\ Paired(Tail(bnds), SubSeq(ms, q + 1, Len(ms)))

\* C19: break state never leaks across sessions: every break boundary in
\* the intervals of an emitted session comes from a break_start and a
\* break_end that were both processed after that session's own start and
\* before its finish (`marks`); the breaks processed before the start,
\* after a previous finish or during a discarded session are not in it.
C19_BreaksAreOfTheSession ==
    ConsumedActive("finish") =>
        Paired(Boundaries(LastSession.time_range), marks)

\* a session with a break, and then a session without one
C19_Witness ==
    /\ ConsumedActive("finish")
    /\ Len(sessions) = 2
    /\ Len(sessions[1].time_range) = 2
    /\ Len(sessions[2].time_range) = 1
    /\ marks = <<>>

====
